---------------------------- MODULE Spec2Model ----------------------------
(***************************************************************************)
(* A model of jwl, a command line client that lists and creates Jira       *)
(* worklogs (src/src/main.rs, src/src/worklog_api.rs, src/src/config.rs).  *)
(*                                                                         *)
(* One behaviour of Spec is one invocation of the program: main parses the *)
(* command, read_config resolves the context, and view_worklog or          *)
(* add_worklog builds one request, sends it and classifies what came back. *)
(* SpecApi calls WorklogApi::worklogs directly with any ViewWorklogDto.    *)
(*                                                                         *)
(* Representation.  Names (issue ids, domains, tokens, comments, output    *)
(* lines) are TLA+ strings.  Strings the model has to look inside (the     *)
(* formatted timestamps) are sequences of one-character strings.  An       *)
(* Option<T> is None or Some(x).  Integers are those of TLC (32 bit), so   *)
(* the dates of the model lie between 1902 and 2037, where the epoch       *)
(* second of a date fits.                                                  *)
(***************************************************************************)
EXTENDS Integers, Sequences, FiniteSets, TLC

VARIABLES
    pc,          \* position: "main", "run" (context resolved), "done"; "api" in SpecApi
    args,        \* the parsed command line (Commands)
    configFile,  \* what confy finds on disk
    context,     \* Option<Context>: the context read_config returned
    sendCalls,   \* number of calls of RequestBuilder::send
    wire,        \* the HTTP requests that left the process, in order
    outcome,     \* Option: what send() met (builder error, transport failure, response)
    result,      \* Option: the Result main returns
    stdout,      \* the lines printed
    clock,       \* Option<Date>: what today() returned, if main called it
    apiResult,   \* Option: what worklogs or create_worklog returned
    apiDto,      \* Option: the ViewWorklogDto handed to worklogs
    apiOrigin    \* Option<Date>: the date of the ViewContext apiDto was converted from

vars == <<pc, args, configFile, context, sendCalls, wire, outcome, result, stdout,
          clock, apiResult, apiDto, apiOrigin>>

---------------------------------------------------------------------------
(* Option and Result *)

None == [some |-> FALSE]

Some(x) == [some |-> TRUE, val |-> x]

Option(S) == {None} \cup {Some(x) : x \in S}

Ok(x) == [ok |-> TRUE, val |-> x]

Err(e) == [ok |-> FALSE, err |-> e]

Unit == "()"

\* Option::unwrap_or
unwrap_or(o, default) == IF o.some THEN o.val ELSE default

---------------------------------------------------------------------------
(* Bounds of the model *)

\* longest worklog list a response body carries
MaxWorklogs == 2

\* longest context list of a multiple-context configuration
MaxContexts == 2

\* All sequences over S of length at most n.
SeqUpTo(S, n) == UNION {[1..k -> S] : k \in 0..n}

---------------------------------------------------------------------------
(* Text: sequences of one-character strings *)

DigitChars == <<"0", "1", "2", "3", "4", "5", "6", "7", "8", "9">>

RECURSIVE Digits(_)
\* the decimal digits of a natural number
Digits(n) ==
    IF n < 10 THEN <<DigitChars[n + 1]>>
    ELSE Digits(n \div 10) \o <<DigitChars[(n % 10) + 1]>>

\* a natural number zero-padded to width w (chrono's %Y, %m, %d, %H, %M, %S, %3f)
Pad(n, w) ==
    LET ds == Digits(n)
    IN  IF Len(ds) >= w THEN ds ELSE [i \in 1..(w - Len(ds)) |-> "0"] \o ds

\* a signed integer in decimal (chrono's %s)
FormatInt(n) == IF n < 0 THEN <<"-">> \o Digits(0 - n) ELSE Digits(n)

---------------------------------------------------------------------------
(* chrono: Date<Utc> and DateTime<Utc> *)

\* Date<Utc>: the calendar dates of the model
Dates ==
    { [year |-> 1969, month |-> 12, day |-> 31],
      [year |-> 1970, month |-> 1,  day |-> 1],
      [year |-> 2024, month |-> 2,  day |-> 29] }

\* Date::and_hms
and_hms(date, h, m, s) == [date |-> date, hour |-> h, minute |-> m, second |-> s]

\* days from 1970-01-01 to the date (proleptic Gregorian calendar)
days_from_civil(date) ==
    LET y   == IF date.month <= 2 THEN date.year - 1 ELSE date.year
        era == y \div 400
        yoe == y - era * 400
        mp  == IF date.month > 2 THEN date.month - 3 ELSE date.month + 9
        doy == (153 * mp + 2) \div 5 + date.day - 1
        doe == yoe * 365 + yoe \div 4 - yoe \div 100 + doy
    IN  era * 146097 + doe - 719468

\* DateTime<Utc>::timestamp: seconds since 1970-01-01T00:00:00Z
timestamp(dt) ==
    days_from_civil(dt.date) * 86400 + dt.hour * 3600 + dt.minute * 60 + dt.second

\* format_epoch_millis gone wrong: the format "%s", without the literal 000
format_epoch_seconds(dt) == FormatInt(timestamp(dt))

\* DateTime::format("%s000"): the epoch second, then the literal 000
format_epoch_millis(dt) == FormatInt(timestamp(dt)) \o <<"0", "0", "0">>

\* DateTime::format("%FT%X.%3f%z"): %F is %Y-%m-%d, %X is %H:%M:%S, %3f is the
\* millisecond of the second (and_hms leaves it 0), %z is the offset of Utc
format_started(dt) ==
    Pad(dt.date.year, 4) \o <<"-">> \o Pad(dt.date.month, 2) \o <<"-">>
        \o Pad(dt.date.day, 2)
        \o <<"T">>
        \o Pad(dt.hour, 2) \o <<":">> \o Pad(dt.minute, 2) \o <<":">> \o Pad(dt.second, 2)
        \o <<".">> \o Pad(0, 3)
        \o <<"+", "0", "0", "0", "0">>

---------------------------------------------------------------------------
(* Authorization, Context, Config *)

ApiToken(username, api_token) ==
    [variant |-> "ApiToken", username |-> username, api_token |-> api_token]

AccessToken(access_token) ==
    [variant |-> "AccessToken", access_token |-> access_token]

\* impl From<Authorization> for worklog_api::Authorization
into_api_authorization(auth) ==
    IF auth.variant = "ApiToken"
    THEN ApiToken(auth.username, auth.api_token)
    ELSE AccessToken(auth.access_token)

\* Context::new
Context_new(name, authorization, jira_domain) ==
    [name |-> name, authorization |-> authorization, jira_domain |-> jira_domain]

\* Context::default: no name, Authorization::default, the empty domain
Context_default == Context_new(None, AccessToken(""), "")

SingleContext(c) == [variant |-> "SingleContext", context |-> c]

MultipleContexts(cs) == [variant |-> "MultipleContexts", contexts |-> cs]

\* Config::default
Config_default == SingleContext(Context_default)

---------------------------------------------------------------------------
(* reqwest: RequestBuilder, as far as the program uses it *)

\* Url::parse accepts an absolute URL only: a domain with its scheme
AbsoluteDomains == {"https://jira.example.com"}

IntoUrlOk(domain) == domain \in AbsoluteDomains

\* HeaderValue::try_from refuses control characters such as a line feed
HeaderValueOk(value) == value \notin {"Bearer a\nb"}

\* the base64 text of s (kept symbolic: an injective encoding)
Base64(s) == "base64(" \o s \o ")"

Header(name, value) == [name |-> name, value |-> value]

\* Client::get / Client::post: a builder over a fresh request, or the URL error
Client_request(method, domain, url) ==
    IF IntoUrlOk(domain)
    THEN Ok([method |-> method, url |-> url, headers |-> <<>>, query |-> <<>>,
             body |-> None])
    ELSE Err("builder")

\* RequestBuilder::header: appends the header, or turns the builder into an error
RequestBuilder_header(b, name, value) ==
    IF ~b.ok THEN b
    ELSE IF ~HeaderValueOk(value) THEN Err("builder")
    ELSE Ok([b.val EXCEPT !.headers = Append(@, Header(name, value))])

\* RequestBuilder::basic_auth: Authorization: Basic base64(username:password)
RequestBuilder_basic_auth(b, username, password) ==
    RequestBuilder_header(b, "Authorization",
                          "Basic " \o Base64(username \o ":" \o password))

\* RequestBuilder::query: appends the pairs to the URL's query
RequestBuilder_query(b, pairs) ==
    IF ~b.ok THEN b ELSE Ok([b.val EXCEPT !.query = @ \o pairs])

HasHeader(req, name) == \E i \in 1..Len(req.headers) : req.headers[i].name = name

\* RequestBuilder::json: the body, and Content-Type unless the request has one
RequestBuilder_json(b, json) ==
    IF ~b.ok THEN b
    ELSE LET r == [b.val EXCEPT !.body = Some(json)]
         IN  Ok(IF HasHeader(r, "Content-Type") THEN r
                ELSE [r EXCEPT !.headers =
                          Append(@, Header("Content-Type", "application/json"))])

\* authorize gone wrong: the api token of an ApiToken sent as a bearer token
authorize_bearer_only(b, authorization) ==
    RequestBuilder_header(b, "Authorization",
                          "Bearer " \o (IF authorization.variant = "ApiToken"
                                        THEN authorization.api_token
                                        ELSE authorization.access_token))

\* impl Authorize for RequestBuilder
authorize(b, authorization) ==
    IF authorization.variant = "ApiToken"
    THEN RequestBuilder_basic_auth(b, authorization.username, authorization.api_token)
    ELSE RequestBuilder_header(b, "Authorization",
                               "Bearer " \o authorization.access_token)

---------------------------------------------------------------------------
(* JSON values and serde *)

JNull == [json |-> "null"]

JString(s) == [json |-> "string", val |-> s]

JNumber(n) == [json |-> "number", num |-> n]

JArray(items) == [json |-> "array", items |-> items]

JObject(fields) == [json |-> "object", fields |-> fields]

\* a body that is no JSON text at all
NotJson == [json |-> "invalid"]

\* Serialize for Option<String>
ser_option_string(o) == IF o.some THEN JString(o.val) ELSE JNull

\* Deserialize for String
de_string(j) == IF j.json = "string" THEN Ok(j.val) ELSE Err("type")

\* Deserialize for Option<String>, as a struct field: absent or null is None
de_option_string_field(fields, key) ==
    IF key \notin DOMAIN fields THEN Ok(None)
    ELSE IF fields[key].json = "null" THEN Ok(None)
    ELSE IF fields[key].json = "string" THEN Ok(Some(fields[key].val))
    ELSE Err("type")

\* a required String field
de_string_field(fields, key) ==
    IF key \notin DOMAIN fields THEN Err("missing") ELSE de_string(fields[key])

---------------------------------------------------------------------------
(* worklog_api::data *)

\* ViewWorklogDto::new
ViewWorklogDto_new(issue, from, until) ==
    [issue |-> issue, from |-> from, until |-> until]

\* CreateWorklogDto::new
CreateWorklogDto_new(issue, comment, time_spent, started) ==
    [issue |-> issue, comment |-> comment, time_spent |-> time_spent,
     started |-> started]

\* into_WorklogAddBody gone wrong: the start of the day instead of noon
into_WorklogAddBody_midnight(dto) ==
    [comment    |-> dto.comment,
     time_spent |-> dto.time_spent,
     started    |-> format_started(and_hms(dto.started, 0, 0, 0))]

\* impl From<CreateWorklogDto> for WorklogAddBody
into_WorklogAddBody(dto) ==
    [comment    |-> dto.comment,
     time_spent |-> dto.time_spent,
     started    |-> format_started(and_hms(dto.started, 12, 0, 0))]

\* Serialize for WorklogAddBody (rename_all = "camelCase")
ser_WorklogAddBody(body) ==
    JObject([comment   |-> ser_option_string(body.comment),
             timeSpent |-> JString(body.time_spent),
             started   |-> JString(body.started)])

\* Deserialize for AuthorResponse (rename_all = "camelCase")
de_AuthorResponse(j) ==
    IF j.json # "object" THEN Err("type")
    ELSE LET display_name == de_string_field(j.fields, "displayName")
         IN  IF ~display_name.ok THEN display_name
             ELSE Ok([display_name |-> display_name.val])

\* Deserialize for WorklogResponse (rename_all = "camelCase"); other fields are ignored
de_WorklogResponse(j) ==
    IF j.json # "object" THEN Err("type")
    ELSE IF "author" \notin DOMAIN j.fields THEN Err("missing")
    ELSE LET author     == de_AuthorResponse(j.fields["author"])
             comment    == de_option_string_field(j.fields, "comment")
             time_spent == de_string_field(j.fields, "timeSpent")
         IN  IF ~author.ok THEN author
             ELSE IF ~comment.ok THEN comment
             ELSE IF ~time_spent.ok THEN time_spent
             ELSE Ok([author |-> author.val, comment |-> comment.val,
                      time_spent |-> time_spent.val])

\* Deserialize for Vec<WorklogResponse>: every element, in order
de_worklogs(j) ==
    IF j.json # "array" THEN Err("type")
    ELSE IF \E i \in 1..Len(j.items) : ~de_WorklogResponse(j.items[i]).ok
    THEN Err("element")
    ELSE Ok([i \in 1..Len(j.items) |-> de_WorklogResponse(j.items[i]).val])

\* Deserialize for PagedWorklogResponse; other fields are ignored
de_PagedWorklogResponse(j) ==
    IF j.json # "object" THEN Err("type")
    ELSE IF "worklogs" \notin DOMAIN j.fields THEN Err("missing")
    ELSE LET worklogs == de_worklogs(j.fields["worklogs"])
         IN  IF ~worklogs.ok THEN worklogs ELSE Ok([worklogs |-> worklogs.val])

---------------------------------------------------------------------------
(* ApiError *)

InvalidBaseUrl(base_url) == [error |-> "InvalidBaseUrl", base_url |-> base_url]

Unauthorized == [error |-> "Unauthorized"]

NotFound(kind, name) == [error |-> "NotFound", kind |-> kind, name |-> name]

SerializationError == [error |-> "SerializationError"]

UnknownError == [error |-> "UnknownError"]

---------------------------------------------------------------------------
(* The server and the network, seen from send() *)

Statuses == {200, 204, 302, 401, 403, 404, 500}

\* StatusCode::is_success
is_success(status) == 200 <= status /\ status < 300

\* worklog objects a server may send: complete; with a null comment and a field
\* the client does not know; without the comment field; without timeSpent
WorklogComplete ==
    JObject([author |-> JObject([displayName |-> JString("Jane")]),
             comment |-> JString("review"), timeSpent |-> JString("2h")])

WorklogNullComment ==
    JObject([author |-> JObject([displayName |-> JString("Bob")]),
             comment |-> JNull, timeSpent |-> JString("30m"),
             id |-> JString("10001")])

WorklogNoComment ==
    JObject([author |-> JObject([displayName |-> JString("Bob")]),
             timeSpent |-> JString("1d")])

WorklogNoTimeSpent ==
    JObject([author |-> JObject([displayName |-> JString("Jane")]),
             comment |-> JString("review")])

\* a page of worklogs, with a pagination field
Page(w) == JObject([worklogs |-> JArray(w), total |-> JNumber(Len(w))])

\* response bodies: no JSON, an error object, a page whose second record lacks
\* timeSpent, a page whose record has no comment field, and the pages of up to
\* MaxWorklogs well-formed records
Bodies ==
    { NotJson,
      JObject([errorMessages |-> JArray(<<>>)]),
      Page(<<WorklogComplete, WorklogNoTimeSpent>>),
      Page(<<WorklogNoComment>>) }
        \cup { Page(w) :
                 w \in SeqUpTo({WorklogComplete, WorklogNullComment}, MaxWorklogs) }

\* what a call of send() meets once the request is built: a transport failure
\* (before or after the request left) or a response
SendOutcomes ==
    { [kind |-> "transport", transmitted |-> t] : t \in BOOLEAN }
        \cup { [kind |-> "response", status |-> s, body |-> b] :
                 s \in Statuses, b \in Bodies }

\* send gone wrong: a request that failed after it left is sent once more
send_retrying(b, env) ==
    IF ~b.ok
    THEN [response |-> Err([is_builder |-> TRUE]), sent |-> <<>>,
          met |-> [kind |-> "builder"]]
    ELSE IF env.kind = "transport"
    THEN [response |-> Err([is_builder |-> FALSE]),
          sent |-> IF env.transmitted THEN <<b.val, b.val>> ELSE <<>>, met |-> env]
    ELSE [response |-> Ok([status |-> env.status, body |-> env.body]),
          sent |-> <<b.val>>, met |-> env]

\* RequestBuilder::send: a builder error is returned before anything is sent
send(b, env) ==
    IF ~b.ok
    THEN [response |-> Err([is_builder |-> TRUE]), sent |-> <<>>,
          met |-> [kind |-> "builder"]]
    ELSE IF env.kind = "transport"
    THEN [response |-> Err([is_builder |-> FALSE]),
          sent |-> IF env.transmitted THEN <<b.val>> ELSE <<>>, met |-> env]
    ELSE [response |-> Ok([status |-> env.status, body |-> env.body]),
          sent |-> <<b.val>>, met |-> env]

---------------------------------------------------------------------------
(* WorklogApi *)

\* WorklogApi::new
WorklogApi_new(domain) == [domain |-> domain]

\* the URL both operations format
worklog_url(self, issue) == self.domain \o "/rest/api/2/issue/" \o issue \o "/worklog"

\* worklogs: the HashMap of query parameters
worklogs_query(ctx) ==
    (IF ctx.from.some
     THEN {[key |-> "startedAfter", value |-> format_epoch_millis(ctx.from.val)]}
     ELSE {})
        \cup
    (IF ctx.until.some
     THEN {[key |-> "startedBefore", value |-> format_epoch_millis(ctx.until.val)]}
     ELSE {})

\* HashMap::into_iter().collect(): the entries, each once, in an order the
\* program does not control
QueryOrders(map) ==
    {q \in [1..Cardinality(map) -> map] :
        \A i, j \in 1..Cardinality(map) : q[i] = q[j] => i = j}

\* worklogs_send_error gone wrong: the builder error not told apart
worklogs_send_error_unknown(self, e) == UnknownError

\* worklogs: the map_err of send()
worklogs_send_error(self, e) ==
    IF e.is_builder THEN InvalidBaseUrl(self.domain) ELSE UnknownError

\* worklogs_status gone wrong: the FORBIDDEN arm left out
worklogs_status_without_forbidden(status, ctx) ==
    IF 200 <= status /\ status < 300 THEN Ok(Unit)
    ELSE IF status = 404 THEN Err(NotFound("issue", ctx.issue))
    ELSE IF status = 401 THEN Err(Unauthorized)
    ELSE Err(UnknownError)

\* worklogs: the match on response.status()
worklogs_status(status, ctx) ==
    IF is_success(status) THEN Ok(Unit)
    ELSE IF status = 404 THEN Err(NotFound("issue", ctx.issue))
    ELSE IF status \in {401, 403} THEN Err(Unauthorized)
    ELSE Err(UnknownError)

\* worklogs_body gone wrong: the records in reverse order
worklogs_body_reversed(body) ==
    LET r == de_PagedWorklogResponse(body)
    IN  IF r.ok
        THEN Ok([i \in 1..Len(r.val.worklogs) |->
                    r.val.worklogs[Len(r.val.worklogs) + 1 - i]])
        ELSE Err(SerializationError)

\* worklogs: response.json::<PagedWorklogResponse>(), mapped to the records
worklogs_body(body) ==
    LET r == de_PagedWorklogResponse(body)
    IN  IF r.ok THEN Ok(r.val.worklogs) ELSE Err(SerializationError)

\* WorklogApi::worklogs. query is the order the HashMap gave, env what send() meets.
worklogs(self, ctx, authorization, query, env) ==
    LET builder == RequestBuilder_query(
                       authorize(Client_request("GET", self.domain,
                                                worklog_url(self, ctx.issue)),
                                 authorization),
                       query)
        sending == send(builder, env)
        returned ==
            IF ~sending.response.ok
            THEN Err(worklogs_send_error(self, sending.response.err))
            ELSE LET status == worklogs_status(sending.response.val.status, ctx)
                 IN  IF ~status.ok THEN status
                     ELSE worklogs_body(sending.response.val.body)
    IN  [result |-> returned, sent |-> sending.sent, met |-> sending.met]

\* create_worklog_send_error gone wrong: classified as worklogs classifies
create_worklog_send_error_as_list(e) ==
    IF e.is_builder THEN InvalidBaseUrl("")
    ELSE UnknownError

\* create_worklog: the map_err of send()
create_worklog_send_error(e) == UnknownError

\* create_worklog: the match on response.status()
create_worklog_status(status, dto) ==
    IF is_success(status) THEN Ok(Unit)
    ELSE IF status = 404 THEN Err(NotFound("issue", dto.issue))
    ELSE IF status \in {401, 403} THEN Err(Unauthorized)
    ELSE Err(UnknownError)

\* WorklogApi::create_worklog
create_worklog(self, dto, authorization, env) ==
    LET body    == into_WorklogAddBody(dto)
        request == authorize(
                       RequestBuilder_json(
                           RequestBuilder_header(
                               Client_request("POST", self.domain,
                                              worklog_url(self, dto.issue)),
                               "Content-Type", "application/json"),
                           ser_WorklogAddBody(body)),
                       authorization)
        sending == send(request, env)
        returned ==
            IF ~sending.response.ok
            THEN Err(create_worklog_send_error(sending.response.err))
            ELSE create_worklog_status(sending.response.val.status, dto)
    IN  [result |-> returned, sent |-> sending.sent, met |-> sending.met]

---------------------------------------------------------------------------
(* main.rs: the commands *)

Issues == {"JWL-1", "XYZ-2"}

ContextNames == {"work", "home"}

\* the contexts a configuration file of the model is made of
Contexts ==
    { Context_new(Some("work"), ApiToken("u", "t"), "https://jira.example.com"),
      Context_new(Some("work"), AccessToken("abc"), "https://jira.example.com"),
      Context_new(None, AccessToken("a\nb"), "https://jira.example.com") }

\* the configuration file: absent, unreadable, or a Config
ConfigFiles ==
    { [file |-> "absent"], [file |-> "unreadable"] }
        \cup { [file |-> "stored", config |-> SingleContext(c)] : c \in Contexts }
        \cup { [file |-> "stored", config |-> MultipleContexts(cs)] :
                 cs \in SeqUpTo(Contexts, MaxContexts) }

\* Commands, as clap parsed them
Commands ==
    { [command |-> "View", issue |-> i, date |-> d, context |-> c] :
        i \in Issues, d \in Option(Dates), c \in Option(ContextNames) }
        \cup
    { [command |-> "Add", comment |-> k, issue |-> i, time_spend |-> t, date |-> d,
       context |-> c] :
        k \in Option({"review"}), i \in Issues, t \in {"2h", "30m"},
        d \in Option(Dates), c \in Option(ContextNames) }
        \cup
    { [command |-> "Config"] }

\* ViewContext::new
ViewContext_new(date, issue) == [date |-> date, issue |-> issue]

\* impl From<ViewContext> for ViewWorklogDto
into_ViewWorklogDto(ctx) ==
    ViewWorklogDto_new(ctx.issue,
                       Some(and_hms(ctx.date, 0, 0, 0)),
                       Some(and_hms(ctx.date, 23, 59, 59)))

\* AddContext::new
AddContext_new(date, issue, comment, time_spend) ==
    [date |-> date, issue |-> issue, comment |-> comment, time_spend |-> time_spend]

\* impl From<AddContext> for CreateWorklogDto
into_CreateWorklogDto(ctx) ==
    CreateWorklogDto_new(ctx.issue, ctx.comment, ctx.time_spend, ctx.date)

\* confy::load: the stored Config; the default one, stored, when there is no
\* file; an error when the file cannot be read or parsed
confy_load(file) ==
    IF file.file = "unreadable" THEN Err([error |-> "ConfyError"])
    ELSE IF file.file = "absent" THEN Ok(Config_default)
    ELSE Ok(file.config)

NoContextNameGiven == [error |-> "NoContextNameGiven"]

ContextNotFound(name) == [error |-> "ContextNotFound", name |-> name]

\* find_context gone wrong: the last context of that name
find_context_last(contexts, name) ==
    LET hits == {i \in 1..Len(contexts) : contexts[i].name = Some(name)}
    IN  IF hits = {} THEN None
        ELSE Some(contexts[CHOOSE i \in hits : \A j \in hits : i >= j])

\* Iterator::find: the first context whose name is Some(name)
find_context(contexts, name) ==
    LET hits == {i \in 1..Len(contexts) : contexts[i].name = Some(name)}
    IN  IF hits = {} THEN None
        ELSE Some(contexts[CHOOSE i \in hits : \A j \in hits : i <= j])

\* read_config, after the load: the match on the Config
read_config(config, name) ==
    IF config.variant = "SingleContext" THEN Ok(config.context)
    ELSE IF ~name.some THEN Err(NoContextNameGiven)
    ELSE LET found == find_context(config.contexts, name.val)
         IN  IF found.some THEN Ok(found.val) ELSE Err(ContextNotFound(name.val))

\* worklog_line gone wrong: nothing printed for an absent comment
worklog_line_without_placeholder(issue, log) ==
    "> " \o issue \o " <" \o log.author.display_name \o "> '" \o log.time_spent
        \o "' " \o unwrap_or(log.comment, "")

\* The backquote character.  A TLA+ string cannot hold one, so the model writes
\* an apostrophe where the program prints a backquote.
Backquote == "'"

\* view_worklog: the line println! formats for one record
worklog_line(issue, log) ==
    "> " \o issue \o " <" \o log.author.display_name \o "> " \o Backquote
        \o log.time_spent \o Backquote \o " "
        \o unwrap_or(log.comment, Backquote \o "no comment" \o Backquote)

\* view_worklog: the for loop over the records
worklog_lines(issue, body) == [i \in 1..Len(body) |-> worklog_line(issue, body[i])]

---------------------------------------------------------------------------
(* One invocation of the program *)

Init ==
    /\ pc = "main"
    /\ args \in Commands
    /\ configFile \in ConfigFiles
    /\ context = None
    /\ sendCalls = 0
    /\ wire = <<>>
    /\ outcome = None
    /\ result = None
    /\ stdout = <<>>
    /\ clock = None
    /\ apiResult = None
    /\ apiDto = None
    /\ apiOrigin = None

\* main, the View and Add arms up to `read_config(context)?`
ReadConfig ==
    /\ pc = "main"
    /\ args.command \in {"View", "Add"}
    /\ LET loaded == confy_load(configFile)
           read   == read_config(loaded.val, args.context)
       IN  /\ configFile' = IF configFile.file = "absent"
                            THEN [file |-> "stored", config |-> Config_default]
                            ELSE configFile
           /\ IF ~loaded.ok
              THEN /\ result' = Some(Err(loaded.err))
                   /\ context' = context
                   /\ pc' = "done"
              ELSE IF ~read.ok
              THEN /\ result' = Some(Err(read.err))
                   /\ context' = context
                   /\ pc' = "done"
              ELSE /\ result' = result
                   /\ context' = Some(read.val)
                   /\ pc' = "run"
    /\ UNCHANGED <<args, sendCalls, wire, outcome, stdout, clock, apiResult, apiDto,
                   apiOrigin>>

\* what today() returns, asked only when the command line gave no date
Today == IF args.date.some THEN {None} ELSE {Some(d) : d \in Dates}

\* date.unwrap_or_else(today)
DateOf(today) == IF args.date.some THEN args.date.val ELSE today.val

\* main, the View arm after read_config: view_worklog
ViewWorklog ==
    /\ pc = "run"
    /\ args.command = "View"
    /\ \E today \in Today :
         LET config == context.val
             ctx    == ViewContext_new(DateOf(today), args.issue)
             dto    == into_ViewWorklogDto(ctx)
         IN  \E query \in QueryOrders(worklogs_query(dto)), env \in SendOutcomes :
               \E call \in {worklogs(WorklogApi_new(config.jira_domain), dto,
                                     into_api_authorization(config.authorization),
                                     query, env)} :
                   /\ clock' = today
                   /\ apiOrigin' = Some(ctx.date)
                   /\ apiDto' = Some(dto)
                   /\ sendCalls' = sendCalls + 1
                   /\ wire' = wire \o call.sent
                   /\ outcome' = Some(call.met)
                   /\ apiResult' = Some(call.result)
                   /\ IF call.result.ok
                      THEN /\ stdout' = stdout \o worklog_lines(ctx.issue, call.result.val)
                           /\ result' = Some(Ok(Unit))
                      ELSE /\ stdout' = stdout
                           /\ result' = Some(Err(call.result.err))
    /\ pc' = "done"
    /\ UNCHANGED <<args, configFile, context>>

\* main, the Add arm after read_config: add_worklog
AddWorklog ==
    /\ pc = "run"
    /\ args.command = "Add"
    /\ \E today \in Today, env \in SendOutcomes :
         LET config == context.val
             ctx    == AddContext_new(DateOf(today), args.issue, args.comment,
                                      args.time_spend)
         IN  \E call \in {create_worklog(WorklogApi_new(config.jira_domain),
                                         into_CreateWorklogDto(ctx),
                                         into_api_authorization(config.authorization),
                                         env)} :
             /\ clock' = today
             /\ sendCalls' = sendCalls + 1
             /\ wire' = wire \o call.sent
             /\ outcome' = Some(call.met)
             /\ apiResult' = Some(call.result)
             /\ result' = IF call.result.ok THEN Some(Ok(Unit))
                          ELSE Some(Err(call.result.err))
    /\ pc' = "done"
    /\ UNCHANGED <<args, configFile, context, stdout, apiDto, apiOrigin>>

\* what the prompts of setup_config meet: a prompt fails, the selection is
\* cancelled, or every prompt is answered and confy::store succeeds or fails
SetupInputs ==
    { [prompt |-> "failed"], [prompt |-> "cancelled"] }
        \cup { [prompt |-> "answered", jira_domain |-> d, authorization |-> a,
                stored |-> st] :
                 d \in {"https://jira.example.com", "jira.example.com"},
                 a \in {ApiToken("u", "t"), AccessToken("abc")},
                 st \in BOOLEAN }

\* main, the Config arm: config::setup_config
SetupConfig ==
    /\ pc = "main"
    /\ args.command = "Config"
    /\ \E input \in SetupInputs :
         IF input.prompt = "answered" /\ input.stored
         THEN /\ configFile' =
                    [file |-> "stored",
                     config |-> SingleContext(Context_new(None, input.authorization,
                                                          input.jira_domain))]
              /\ stdout' = Append(stdout, "Config created, application ready for use")
              /\ result' = Some(Ok(Unit))
         ELSE /\ configFile' = configFile
              /\ stdout' = stdout
              /\ result' = Some(Err([error |->
                                IF input.prompt = "cancelled"
                                THEN "FailedToSelectAuthorization"
                                ELSE IF input.prompt = "failed" THEN "PromptError"
                                ELSE "ConfyError"]))
    /\ pc' = "done"
    /\ UNCHANGED <<args, context, sendCalls, wire, outcome, clock, apiResult, apiDto,
                   apiOrigin>>

Next == ReadConfig \/ ViewWorklog \/ AddWorklog \/ SetupConfig

Spec == Init /\ [][Next]_vars

---------------------------------------------------------------------------
(* WorklogApi::worklogs called with any ViewWorklogDto *)

\* the timestamps a caller may pass as bounds
DateTimes ==
    { and_hms([year |-> 1970, month |-> 1, day |-> 1], 0, 0, 0),
      and_hms([year |-> 1969, month |-> 12, day |-> 31], 23, 59, 59),
      and_hms([year |-> 2024, month |-> 2, day |-> 29], 8, 30, 15) }

InitApi ==
    /\ pc = "api"
    /\ args = [command |-> "Api"]
    /\ configFile = [file |-> "absent"]
    /\ context = None
    /\ sendCalls = 0
    /\ wire = <<>>
    /\ outcome = None
    /\ result = None
    /\ stdout = <<>>
    /\ clock = None
    /\ apiResult = None
    /\ \E i \in Issues :
         \/ \E d \in Dates :
              /\ apiOrigin = Some(d)
              /\ apiDto = Some(into_ViewWorklogDto(ViewContext_new(d, i)))
         \/ \E f \in Option(DateTimes), u \in Option(DateTimes) :
              /\ apiOrigin = None
              /\ apiDto = Some(ViewWorklogDto_new(i, f, u))

\* a call of WorklogApi::worklogs
ApiWorklogs ==
    /\ pc = "api"
    /\ \E authorization \in {ApiToken("u", "t"), AccessToken("abc")},
          query \in QueryOrders(worklogs_query(apiDto.val)),
          env \in SendOutcomes :
         \E call \in {worklogs(WorklogApi_new("https://jira.example.com"), apiDto.val,
                               authorization, query, env)} :
             /\ sendCalls' = sendCalls + 1
             /\ wire' = wire \o call.sent
             /\ outcome' = Some(call.met)
             /\ apiResult' = Some(call.result)
    /\ pc' = "done"
    /\ UNCHANGED <<args, configFile, context, result, stdout, clock, apiDto, apiOrigin>>

NextApi == Next \/ ApiWorklogs

SpecApi == (Init \/ InitApi) /\ [][NextApi]_vars

---------------------------------------------------------------------------
(* The claims.  What the formulas read of a finished call. *)

\* an API call was made and returned
Called == pc = "done" /\ apiResult.some

\* send() got a response
GotResponse == Called /\ outcome.val.kind = "response"

\* the call returned Err(e)
Returned(e) == apiResult.val = Err(e)

\* C1: once a response was received, its status alone decides the error of
\* list and of create: 404 is NotFound{kind: "issue", name: the request's
\* issue}, 401 and 403 are Unauthorized, every other status outside 200..299
\* is UnknownError, whatever the body and whichever Authorization variant the
\* context holds.
C1_StatusDecidesError ==
    (GotResponse /\ args.command \in {"View", "Add"}) =>
        LET status == outcome.val.status
        IN  /\ status = 404 => Returned(NotFound("issue", args.issue))
            /\ status \in {401, 403} => Returned(Unauthorized)
            /\ (status \notin 200..299 /\ status \notin {401, 403, 404})
                   => Returned(UnknownError)

\* C1, its case: list answered 403 under an ApiToken context
C1_Witness ==
    /\ GotResponse
    /\ args.command = "View"
    /\ outcome.val.status = 403
    /\ context.val.authorization.variant = "ApiToken"
    /\ Returned(Unauthorized)

\* C2: in list a failure of send() is classified before any status: a builder
\* error is InvalidBaseUrl carrying the client's domain, any other transport
\* failure is UnknownError.
C2_ListSendFailure ==
    (Called /\ args.command = "View") =>
        /\ outcome.val.kind = "builder"
               => Returned(InvalidBaseUrl(context.val.jira_domain))
        /\ outcome.val.kind = "transport" => Returned(UnknownError)

\* C2, its case: list under the default context, whose domain is empty
C2_Witness ==
    /\ Called
    /\ args.command = "View"
    /\ outcome.val.kind = "builder"
    /\ context.val.jira_domain = ""
    /\ Returned(InvalidBaseUrl(""))

\* C3: in create every failure of send(), a builder error included, is
\* UnknownError, and a status in 200..299 is success whatever the body; create
\* returns neither InvalidBaseUrl nor SerializationError.
C3_CreateClassification ==
    (Called /\ args.command = "Add") =>
        /\ outcome.val.kind \in {"builder", "transport"} => Returned(UnknownError)
        /\ (outcome.val.kind = "response" /\ outcome.val.status \in 200..299)
               => apiResult.val = Ok(Unit)
        /\ ~apiResult.val.ok
               => apiResult.val.err.error \notin {"InvalidBaseUrl", "SerializationError"}

\* C3, its case: create under a context whose request cannot be built
C3_Witness ==
    /\ Called
    /\ args.command = "Add"
    /\ outcome.val.kind = "builder"
    /\ ~IntoUrlOk(context.val.jira_domain)
    /\ Returned(UnknownError)

\* the body has the shape of a PagedWorklogResponse: an object whose worklogs
\* is an array of objects, each with an author object holding a string
\* displayName, a string timeSpent, and a comment that is absent, null or a string
HasPageShape(body) ==
    /\ body.json = "object"
    /\ "worklogs" \in DOMAIN body.fields
    /\ body.fields["worklogs"].json = "array"
    /\ \A i \in 1..Len(body.fields["worklogs"].items) :
         LET w == body.fields["worklogs"].items[i]
         IN  /\ w.json = "object"
             /\ "author" \in DOMAIN w.fields
             /\ w.fields["author"].json = "object"
             /\ "displayName" \in DOMAIN w.fields["author"].fields
             /\ w.fields["author"].fields["displayName"].json = "string"
             /\ "timeSpent" \in DOMAIN w.fields
             /\ w.fields["timeSpent"].json = "string"
             /\ "comment" \in DOMAIN w.fields
                    => w.fields["comment"].json \in {"null", "string"}

\* record r is what the worklog object w says
RecordOf(r, w) ==
    /\ r.author.display_name = w.fields["author"].fields["displayName"].val
    /\ r.time_spent = w.fields["timeSpent"].val
    /\ r.comment = IF "comment" \in DOMAIN w.fields /\ w.fields["comment"].json = "string"
                   THEN Some(w.fields["comment"].val)
                   ELSE None

\* C4: list parses the body only under a status in 200..299: a body without
\* the PagedWorklogResponse shape is SerializationError, a body with it yields
\* its records, as many and in the order sent; under any other status the
\* result is never SerializationError.
C4_ListBody ==
    (GotResponse /\ args.command = "View") =>
        LET body == outcome.val.body
        IN  IF outcome.val.status \in 200..299
            THEN IF HasPageShape(body)
                 THEN LET items == body.fields["worklogs"].items
                      IN  /\ apiResult.val.ok
                          /\ Len(apiResult.val.val) = Len(items)
                          /\ \A i \in 1..Len(items) :
                               RecordOf(apiResult.val.val[i], items[i])
                 ELSE Returned(SerializationError)
            ELSE ~Returned(SerializationError)

\* C4, its case: a page of two different records came back in the order sent
C4_Witness ==
    /\ GotResponse
    /\ args.command = "View"
    /\ outcome.val.status = 200
    /\ apiResult.val.ok
    /\ Len(apiResult.val.val) = 2
    /\ apiResult.val.val[1].author.display_name = "Jane"
    /\ apiResult.val.val[2].author.display_name = "Bob"

---------------------------------------------------------------------------
(* Reading formatted text back *)

IsDigit(c) == \E n \in 0..9 : DigitChars[n + 1] = c

DigitValue(c) == CHOOSE n \in 0..9 : DigitChars[n + 1] = c

AllDigits(chars) == \A i \in 1..Len(chars) : IsDigit(chars[i])

RECURSIVE NatOf(_)
\* the number a non-empty sequence of digits denotes
NatOf(chars) ==
    IF Len(chars) = 1 THEN DigitValue(chars[1])
    ELSE NatOf(SubSeq(chars, 1, Len(chars) - 1)) * 10 + DigitValue(chars[Len(chars)])

\* chars is a decimal numeral, signed or not
IsNumeral(chars) ==
    /\ Len(chars) >= 1
    /\ IF chars[1] = "-" THEN Len(chars) >= 2 /\ AllDigits(Tail(chars))
       ELSE AllDigits(chars)

\* the integer a numeral denotes
IntOf(chars) == IF chars[1] = "-" THEN 0 - NatOf(Tail(chars)) ELSE NatOf(chars)

\* chars is exactly `width` digits denoting n
IsField(chars, width, n) == Len(chars) = width /\ AllDigits(chars) /\ NatOf(chars) = n

\* the date the command ran with: the one given, or else what today() returned
CommandDate == IF args.date.some THEN args.date.val ELSE clock.val

\* C5: the body create sends for a CreateWorklogDto of date d has a started
\* text YYYY-MM-DDTHH:MM:SS.000+0000 that reads as d, 12:00:00, offset +0000;
\* timeSpent and comment are the command's, an absent comment being null.
C5_StartedIsNoonUtc ==
    (args.command = "Add" /\ wire # <<>>) =>
        LET fields == wire[1].body.val.fields
            s      == fields["started"].val
        IN  /\ DOMAIN fields = {"comment", "timeSpent", "started"}
            /\ Len(s) = 28
            /\ IsField(SubSeq(s, 1, 4), 4, CommandDate.year)
            /\ s[5] = "-"
            /\ IsField(SubSeq(s, 6, 7), 2, CommandDate.month)
            /\ s[8] = "-"
            /\ IsField(SubSeq(s, 9, 10), 2, CommandDate.day)
            /\ s[11] = "T"
            /\ IsField(SubSeq(s, 12, 13), 2, 12)
            /\ s[14] = ":"
            /\ IsField(SubSeq(s, 15, 16), 2, 0)
            /\ s[17] = ":"
            /\ IsField(SubSeq(s, 18, 19), 2, 0)
            /\ SubSeq(s, 20, 28) = <<".", "0", "0", "0", "+", "0", "0", "0", "0">>
            /\ fields["timeSpent"] = JString(args.time_spend)
            /\ fields["comment"] = IF args.comment.some THEN JString(args.comment.val)
                                   ELSE JNull

\* C5, its case: a worklog without comment sent for today's date, 2024-02-29
C5_Witness ==
    /\ args.command = "Add"
    /\ wire # <<>>
    /\ args.comment = None
    /\ args.date = None
    /\ clock = Some([year |-> 2024, month |-> 2, day |-> 29])
    /\ wire[1].body.val.fields["comment"] = JNull

\* the query of request r has parameter key exactly when bound is present,
\* once, and then its value is the bound's epoch second followed by 000
QueryCarries(r, key, bound) ==
    LET at == {i \in 1..Len(r.query) : r.query[i].key = key}
    IN  IF ~bound.some THEN at = {}
        ELSE /\ Cardinality(at) = 1
             /\ \A i \in at :
                  LET v == r.query[i].value
                  IN  /\ Len(v) >= 4
                      /\ SubSeq(v, Len(v) - 2, Len(v)) = <<"0", "0", "0">>
                      /\ IsNumeral(SubSeq(v, 1, Len(v) - 3))
                      /\ IntOf(SubSeq(v, 1, Len(v) - 3)) =
                             days_from_civil(bound.val.date) * 86400
                                 + bound.val.hour * 3600 + bound.val.minute * 60
                                 + bound.val.second

\* C6: the ViewWorklogDto of the view command for date d has from = d at
\* 00:00:00 and until = d at 23:59:59, so from <= until; and the request of
\* any ViewWorklogDto carries startedAfter exactly when from is present and
\* startedBefore exactly when until is, each the bound's epoch second times
\* 1000, and no other parameter.
C6_ViewWindowAndQuery ==
    apiDto.some =>
        /\ args.command = "View" => apiOrigin = Some(CommandDate)
        /\ apiOrigin.some =>
               /\ apiDto.val.from =
                      Some([date |-> apiOrigin.val, hour |-> 0, minute |-> 0,
                            second |-> 0])
               /\ apiDto.val.until =
                      Some([date |-> apiOrigin.val, hour |-> 23, minute |-> 59,
                            second |-> 59])
               /\ timestamp(apiDto.val.from.val) <= timestamp(apiDto.val.until.val)
        /\ \A k \in 1..Len(wire) :
               /\ QueryCarries(wire[k], "startedAfter", apiDto.val.from)
               /\ QueryCarries(wire[k], "startedBefore", apiDto.val.until)
               /\ \A i \in 1..Len(wire[k].query) :
                      wire[k].query[i].key \in {"startedAfter", "startedBefore"}

\* C6, its case: the view command sent its request for 1969-12-31, a day before
\* the epoch
C6_Witness ==
    /\ args.command = "View"
    /\ apiOrigin = Some([year |-> 1969, month |-> 12, day |-> 31])
    /\ wire # <<>>
    /\ Len(wire[1].query) = 2

\* C7: every request list and create send carries one Authorization header,
\* Basic over username:api_token for ApiToken and Bearer access_token for
\* AccessToken, and is otherwise the request as built: method, URL, query
\* parameters, Content-Type and JSON body.
C7_OneAuthentication ==
    \A k \in 1..Len(wire) :
        args.command \in {"View", "Add"} =>
            LET r    == wire[k]
                auth == context.val.authorization
                at   == {i \in 1..Len(r.headers) : r.headers[i].name = "Authorization"}
                rest == SelectSeq(r.headers, LAMBDA h : h.name # "Authorization")
            IN  /\ Cardinality(at) = 1
                /\ \A i \in at :
                     r.headers[i].value =
                         IF auth.variant = "ApiToken"
                         THEN "Basic " \o Base64(auth.username \o ":" \o auth.api_token)
                         ELSE "Bearer " \o auth.access_token
                /\ r.url = context.val.jira_domain \o "/rest/api/2/issue/"
                               \o args.issue \o "/worklog"
                /\ IF args.command = "View"
                   THEN /\ r.method = "GET"
                        /\ rest = <<>>
                        /\ r.body = None
                        /\ {r.query[i].key : i \in 1..Len(r.query)} =
                               {"startedAfter", "startedBefore"}
                        /\ Len(r.query) = 2
                   ELSE /\ r.method = "POST"
                        /\ rest = <<Header("Content-Type", "application/json")>>
                        /\ r.query = <<>>
                        /\ r.body.some
                        /\ r.body.val.json = "object"
                        /\ r.body.val.fields["timeSpent"] = JString(args.time_spend)

\* C7, its case: create sent its request under an ApiToken context
C7_Witness ==
    /\ args.command = "Add"
    /\ wire # <<>>
    /\ context.val.authorization.variant = "ApiToken"
    /\ \E i \in 1..Len(wire[1].headers) :
         wire[1].headers[i] = Header("Authorization", "Basic base64(u:t)")

---------------------------------------------------------------------------
(* The invocation as a whole *)

\* the method the command's request has
MethodOf(command) == IF command = "View" THEN "GET" ELSE "POST"

\* C8 as stated: at most one request per invocation, exactly one GET for view
\* and exactly one POST for add once the configuration was read, none when
\* reading the configuration fails.
C8_ExactlyOneRequest ==
    /\ Len(wire) <= 1
    /\ context = None => wire = <<>>
    /\ (pc = "done" /\ context.some) =>
           /\ Len(wire) = 1
           /\ wire[1].method = MethodOf(args.command)

\* what holds of the requests in every state
RequestsSent ==
    /\ Len(wire) <= 1
    /\ sendCalls <= 1
    /\ context = None => (sendCalls = 0 /\ wire = <<>>)
    /\ (pc = "done" /\ context.some) =>
           /\ sendCalls = 1
           /\ outcome.val.kind = "response" => Len(wire) = 1
           /\ outcome.val.kind = "builder" => wire = <<>>
    /\ \A k \in 1..Len(wire) : wire[k].method = MethodOf(args.command)
    /\ result.some => pc = "done"
    /\ (apiResult.some /\ ~apiResult.val.ok) =>
           (pc = "done" /\ result = Some(Err(apiResult.val.err)))

\* C8, amended: every invocation calls send() at most once and at most one
\* request leaves the process; once the configuration was read view and add
\* call send() exactly once, for a GET and a POST, and the request leaves
\* whenever a response is received but not when it cannot be built; no request
\* is sent when reading the configuration fails; an ApiError ends the
\* invocation with that error, and nothing is sent after a result.
C8_AtMostOneRequest ==
    /\ []RequestsSent
    /\ [][result.some => (wire' = wire /\ sendCalls' = sendCalls)]_vars

\* C8, its case: view ran under the default context, whose request cannot be
\* built: send() was called once and nothing left the process
C8_Witness ==
    /\ pc = "done"
    /\ args.command = "View"
    /\ context.some
    /\ sendCalls = 1
    /\ wire = <<>>
    /\ outcome.val.kind = "builder"
    /\ result = Some(Err(InvalidBaseUrl("")))

\* C9: when list returns records r1..rn view prints n lines, the i-th being
\* > issue <display name> `time spent` comment for ri, with `no comment` for
\* an absent comment; when list returns an error view prints nothing and
\* returns that error.
C9_ViewPrintsRecords ==
    (Called /\ args.command = "View") =>
        IF apiResult.val.ok
        THEN LET records == apiResult.val.val
             IN  /\ result = Some(Ok(Unit))
                 /\ Len(stdout) = Len(records)
                 /\ \A i \in 1..Len(records) :
                      stdout[i] =
                          "> " \o args.issue \o " <"
                              \o records[i].author.display_name \o "> "
                              \o Backquote \o records[i].time_spent \o Backquote \o " "
                              \o (IF records[i].comment.some THEN records[i].comment.val
                                  ELSE Backquote \o "no comment" \o Backquote)
        ELSE /\ stdout = <<>>
             /\ result = Some(Err(apiResult.val.err))

\* C9, its case: two records, the second without comment, printed in order
C9_Witness ==
    /\ Called
    /\ args.command = "View"
    /\ stdout = << "> JWL-1 <Jane> '2h' review", "> JWL-1 <Bob> '30m' 'no comment'" >>

\* C10: read_config on a loaded Config: a single context is returned whatever
\* name was given; of several contexts, no name fails with NoContextNameGiven,
\* a name no context has fails with ContextNotFound(name), and otherwise the
\* first context of that name is returned; on either failure nothing is sent.
C10_ContextResolution ==
    (args.command \in {"View", "Add"} /\ pc # "main" /\ configFile.file = "stored") =>
        LET config == configFile.config
            name   == args.context
        IN  IF config.variant = "SingleContext"
            THEN context = Some(config.context)
            ELSE IF ~name.some
            THEN /\ context = None
                 /\ result = Some(Err(NoContextNameGiven))
                 /\ sendCalls = 0 /\ wire = <<>>
            ELSE IF \A i \in 1..Len(config.contexts) : config.contexts[i].name # name
            THEN /\ context = None
                 /\ result = Some(Err(ContextNotFound(name.val)))
                 /\ sendCalls = 0 /\ wire = <<>>
            ELSE \E i \in 1..Len(config.contexts) :
                     /\ config.contexts[i].name = name
                     /\ \A j \in 1..(i - 1) : config.contexts[j].name # name
                     /\ context = Some(config.contexts[i])

\* C10, its case: two different contexts named work, and the first was taken
C10_Witness ==
    /\ pc = "run"
    /\ configFile.file = "stored"
    /\ configFile.config.variant = "MultipleContexts"
    /\ Len(configFile.config.contexts) = 2
    /\ configFile.config.contexts[1].name = Some("work")
    /\ configFile.config.contexts[2].name = Some("work")
    /\ configFile.config.contexts[1] # configFile.config.contexts[2]
    /\ args.context = Some("work")
    /\ context = Some(configFile.config.contexts[1])

===========================================================================
